---- MODULE Spec2Model ----
(***************************************************************************)
(* Model of tubely's video ingestion handler (handlerUploadVideo) and its  *)
(* helpers.  Two versions of the handler live in the repository:           *)
(*   "pair" : src/unnamed/part_002, which remuxes the staged file and      *)
(*            stores the reference "bucket,key";                           *)
(*   "url"  : src/handler_upload_video.go, which uploads the staged file   *)
(*            and stores the public URL of the object.                     *)
(* A deployment runs one of them (variable variant).  Strings are          *)
(* sequences of tokens; a nil *string is Nil, a non-nil one Ptr(s).        *)
(* Every request is one run of the handler; requests interleave at the     *)
(* granularity of the handler's calls.  calls[r] is the list of calls the  *)
(* request made, responses[r] the list of statuses it wrote.  The line     *)
(* numbers in the comments are those of src/unnamed/part_002.              *)
(***************************************************************************)
EXTENDS Integers, Sequences, FiniteSets, TLC

\* ---------------------------------------------------------------- bounds
NumReqs == 2

Reqs == 1..NumReqs
\* one temporary name for each request that can hold a staged file
TmpNames == 1..NumReqs

\* ------------------------------------------------------- program constants
StatusOK == 200
StatusBadRequest == 400
StatusUnauthorized == 401
StatusNotFound == 404
StatusInternalServerError == 500

\* const maxUpload = 1 << 30
MaxUpload == 1073741824

S3Bucket == <<"bucket">>
S3Region == <<"region">>

\* ------------------------------------------------------------ environment
Users == {"u1", "u2"}
\* the path value of a request: the ID of the record, the ID of no record,
\* or a string that is no UUID
PathValues == {"v1", "v2", "not-a-uuid"}
\* the bearer token: absent, not validating, or validating to a user
Tokens == {"none", "invalid"} \cup Users
\* the length of a request body: at the ceiling, and one byte above it
BodySizes == {MaxUpload, MaxUpload + 1}
AspectRatios == {"16:9", "9:16", "4:3", ""}
MediaTypes == {"video/mp4", "image/png"}

Nil == [isNil |-> TRUE, val |-> <<>>]
Ptr(s) == [isNil |-> FALSE, val |-> s]

VARIABLES variant, db, store, files,
          pc, videoID, userID, video, tmpLocalFile, fastStartVideoLocation,
          aspectRatio, videoOrientation, randomHex, deferred, calls, responses,
          videoThumbnails, input, output

shared == <<variant, db, store, files>>
locals == <<videoID, userID, video, tmpLocalFile, fastStartVideoLocation,
            aspectRatio, videoOrientation, randomHex, deferred>>
\* what handlerUploadVideo does not touch: the thumbnails kept in memory, and
\* the argument and the result of a helper that is run on its own
aux == <<videoThumbnails, input, output>>
vars == <<variant, db, store, files, pc, videoID, userID, video,
          tmpLocalFile, fastStartVideoLocation, aspectRatio, videoOrientation, randomHex,
          deferred, calls, responses, videoThumbnails, input, output>>

\* ------------------------------------------------------------ pure helpers
\* index of the first occurrence of sep in s at or after i, 0 when none
RECURSIVE Index(_, _, _)
Index(s, sep, i) ==
    IF i + Len(sep) - 1 > Len(s) THEN 0
    ELSE IF SubSeq(s, i, i + Len(sep) - 1) = sep THEN i
    ELSE Index(s, sep, i + 1)

\* strings.SplitN(s, sep, 2)
SplitN(s, sep) ==
    LET i == Index(s, sep, 1)
    IN  IF i = 0 THEN <<s>>
        ELSE <<SubSeq(s, 1, i - 1), SubSeq(s, i + Len(sep), Len(s))>>

\* fmt.Sprintf("%s/%s.mp4", videoOrientation, randomHex)
ObjectKey(orientation, hex) == <<orientation, "/">> \o hex \o <<".mp4">>

\* mutant: the key is written before the bucket
PairURLKeyFirst(bucket, orientation, hex) ==
    <<orientation, "/">> \o hex \o <<".mp4", ",">> \o bucket

\* fmt.Sprintf("%s,%s/%s.mp4", cfg.s3Bucket, videoOrientation, randomHex)
PairURL(bucket, orientation, hex) ==
    bucket \o <<",">> \o <<orientation, "/">> \o hex \o <<".mp4">>

\* fmt.Sprintf("http://%s.s3.%s.amazonaws.com/%s/%s.mp4", ...)
PublicURL(bucket, region, orientation, hex) ==
    <<"http://">> \o bucket \o <<".s3.">> \o region \o <<".", "amazonaws.com/">>
        \o <<orientation, "/">> \o hex \o <<".mp4">>

\* the reference a handler writes for an object under orientation/hex.mp4
\* of a bucket
EncodeRef(v, bucket, orientation, hex) ==
    IF v = "pair" THEN PairURL(bucket, orientation, hex)
    ELSE PublicURL(bucket, S3Region, orientation, hex)

\* mutant: the reference is written without the orientation of the upload
EncodeVideoURLOther(v, orientation, hex) == EncodeRef(v, S3Bucket, "other", hex)

\* the reference the running handler writes
EncodeVideoURL(v, orientation, hex) ==
    EncodeRef(v, S3Bucket, orientation, hex)

\* splitURL := strings.SplitN(*videoURL, sep, 2) of the handlers and of
\* dbVideoToSignedVideo: splitURL[0] is read as the bucket (by
\* dbVideoToSignedVideo only), splitURL[1] as the key
DecodeRef(ref, sep) == SplitN(ref, sep)

\* mutant: the old reference is split on the separator of the object key
SeparatorOfKey(v) == <<"/">>

\* the separator the running handler splits the old reference on
Separator(v) == IF v = "pair" THEN <<",">> ELSE <<"amazonaws.com/">>

\* mutant: the ratio is reduced before it is compared
OrientationReduced(ratio) ==
    CASE ratio \in {"16:9", "32:18"} -> "landscape"
      [] ratio = "9:16" -> "portrait"
      [] OTHER -> "other"

\* the switch on the aspect ratio
Orientation(ratio) ==
    CASE ratio = "16:9" -> "landscape"
      [] ratio = "9:16" -> "portrait"
      [] OTHER -> "other"

\* what the analyzer can do: fail to start, exit non-zero, or exit zero; out
\* is what it printed, which parses or not and lists some streams
FFProbeRuns ==
    [exit : {"ok", "ExitError", "other"},
     out : {"", "moov atom not found"},
     json : BOOLEAN,
     streams : {<<>>} \cup {<<a>> : a \in AspectRatios}
                      \cup {<<a, "16:9">> : a \in AspectRatios}]

\* the value and the error returned; out is the output of the analyzer that
\* the error carries
Result(val, err, out) == [val |-> val, err |-> err, out |-> out]

\* mutant: the output is parsed before the exit status is looked at
getVideoAspectRatioParseFirst(run) ==
    IF ~run.json THEN Result("", "error unmarshaling ffprobe output", "")
    ELSE IF run.exit = "ExitError" THEN Result("", "ffprobe failed", run.out)
    ELSE IF run.exit # "ok" THEN Result("", "unexpected error running ffprobe", "")
    ELSE IF Len(run.streams) > 0 THEN Result(run.streams[1], "nil", "")
    ELSE Result("", "couldn't find video stream in ffprobe output", "")

getVideoAspectRatio(run) ==
    IF run.exit = "ExitError" THEN Result("", "ffprobe failed", run.out)
    ELSE IF run.exit # "ok" THEN Result("", "unexpected error running ffprobe", "")
    ELSE IF ~run.json THEN Result("", "error unmarshaling ffprobe output", "")
    ELSE IF Len(run.streams) > 0 THEN Result(run.streams[1], "nil", "")
    ELSE Result("", "couldn't find video stream in ffprobe output", "")

\* the local disk is the set of its files, each with its path and (for the
\* properties only) the request that created it
File(p, r) == [path |-> p, by |-> r]
Exists(fs, p) == \E f \in fs : f.path = p

\* os.CreateTemp("", "tubely-upload.mp4"): the pattern followed by a random
\* string, retried until no file of that name exists
TempPath(n) == <<"tubely-upload.mp4", ToString(n)>>

\* mutant: CreateTemp takes the first name, whether or not a file has it
FreeNameFirst(fs) == CHOOSE n \in TmpNames : \A m \in TmpNames : n <= m

\* the name CreateTemp ends up with: names are interchangeable, so the model
\* takes the least one that no existing file has
FreeName(fs) == CHOOSE n \in TmpNames :
                    /\ ~Exists(fs, TempPath(n))
                    /\ \A m \in TmpNames : m < n => Exists(fs, TempPath(m))

\* outputFilePath := filePath + ".processing"
ProcessingPath(filePath) == filePath \o <<".processing">>

\* mutant: every request draws the same bytes
RandomHexSame(r) == <<"hex", "1">>

\* rand.Read fills 32 bytes: 256 random bits, modelled as a value no other
\* request draws
RandomHex(r) == <<"hex", ToString(r)>>

Call(op, arg, ok) == [op |-> op, arg |-> arg, body |-> <<>>, ok |-> ok]
PutCall(key, body, ok) == [op |-> "PutObject", arg |-> key, body |-> body, ok |-> ok]

\* mutant: the removals are never run
RunDefersNone(fs, d) == fs

\* the deferred os.Remove calls run when the handler returns: d is the set
\* of the paths they name
RunDefers(fs, d) == {f \in fs : f.path \notin d}

\* mutant: the owner check lets every caller through
IsOwnerAlways(v, u) == TRUE

\* video.UserID != userID
IsOwner(v, u) == v.UserID = u

\* mutant: the old object is never retired
HasOldVideoNever(v) == FALSE

\* if video.VideoURL != nil
HasOldVideo(v) == ~v.VideoURL.isNil

\* mutant: the delete names the key that was just uploaded
DeleteKeyNew(oldVideoKey, newKey) == newKey

\* Key: aws.String(oldVideoKey) of the DeleteObjectInput
DeleteKey(oldVideoKey, newKey) == oldVideoKey

\* mutant: the return after a failed upload is missing
AfterPutObjectNoReturn(ok) == "deleteOld"

\* if err != nil { respondWithError(...); return } after PutObject
AfterPutObject(ok) == IF ok THEN "deleteOld" ELSE "return"

\* mutant: a reference that does not split is passed over without an answer
AfterSplitNSilent(ok) == IF ok THEN "deleteObject" ELSE "updateVideo"

\* if len(splitURL) < 2 { respondWithError(...); return }
AfterSplitN(ok) == IF ok THEN "deleteObject" ELSE "return"

\* mutant: the return after a failed delete is missing
AfterDeleteObjectNoReturn(ok) == "updateVideo"

\* if err != nil { respondWithError(...); return } after DeleteObject
AfterDeleteObject(ok) == IF ok THEN "updateVideo" ELSE "return"

\* mutant: the body is read without a ceiling
ExceedsLimitNever(size) == FALSE

\* http.MaxBytesReader(w, r.Body, maxUpload): reading the body fails once
\* more than maxUpload bytes were read
ExceedsLimit(size) == size > MaxUpload

\* mutant: the handler trusts the Content-Type the client declared
DetectedTypeDeclared(sniffed, declared) == declared

\* mediaType := http.DetectContentType(fileHeader): the type is that of the
\* first 512 bytes of the part; the Content-Type header is not consulted
DetectedType(sniffed, declared) == sniffed

\* ------------------------------------------------------------------- Init
InitKey == ObjectKey("other", <<"hex", "0">>)

InitURLs == {Nil,
             Ptr(PairURL(S3Bucket, "other", <<"hex", "0">>)),
             Ptr(PublicURL(S3Bucket, S3Region, "other", <<"hex", "0">>))}

\* no request has started
InitLocals ==
    /\ pc = [r \in Reqs |-> "start"]
    /\ videoID = [r \in Reqs |-> ""]
    /\ userID = [r \in Reqs |-> ""]
    /\ video = [r \in Reqs |-> [UserID |-> "", VideoURL |-> Nil, ThumbnailURL |-> Nil]]
    /\ tmpLocalFile = [r \in Reqs |-> <<>>]
    /\ fastStartVideoLocation = [r \in Reqs |-> <<>>]
    /\ aspectRatio = [r \in Reqs |-> ""]
    /\ videoOrientation = [r \in Reqs |-> ""]
    /\ randomHex = [r \in Reqs |-> <<>>]
    /\ deferred = [r \in Reqs |-> {}]
    /\ calls = [r \in Reqs |-> <<>>]
    /\ responses = [r \in Reqs |-> <<>>]

\* the map videoThumbnails of the process (declared outside the handlers)
\* before any thumbnail was kept
NoThumbnails == [id \in {} |-> Nil]

\* no helper is run on its own
NoInput == [fn |-> "none"]
NoOutput == [done |-> FALSE, val |-> <<>>]

Init ==
    /\ variant \in {"pair", "url"}
    /\ \E u \in InitURLs :
          /\ db = [id \in {"v1"} |-> [UserID |-> "u1", VideoURL |-> u,
                                         ThumbnailURL |-> Nil]]
          /\ store = IF u.isNil THEN {} ELSE {InitKey}
    /\ files = {}
    /\ InitLocals
    /\ videoThumbnails = NoThumbnails
    /\ input = NoInput
    /\ output = NoOutput

\* ---------------------------------------------------------------- actions
\* the handler answers with an error and returns: its deferred removals run
Fail(r, code, newCalls) ==
    /\ responses' = [responses EXCEPT ![r] = Append(@, code)]
    /\ calls' = [calls EXCEPT ![r] = newCalls]
    /\ pc' = [pc EXCEPT ![r] = "done"]
    /\ files' = RunDefers(files, deferred[r])

\* the handler goes on to the next step
Goto(r, next, newCalls) ==
    /\ calls' = [calls EXCEPT ![r] = newCalls]
    /\ pc' = [pc EXCEPT ![r] = next]
    /\ UNCHANGED responses

\* lines 19-29: wrap the body, parse the record ID
Begin(r) ==
    /\ pc[r] = "start"
    /\ UNCHANGED aux
    /\ \E p \in PathValues :
          LET cs == calls[r] \o <<Call("MaxBytesReader", <<>>, TRUE),
                                  Call("uuid.Parse", <<>>, p # "not-a-uuid")>>
          IN  IF p = "not-a-uuid"
              THEN /\ Fail(r, StatusBadRequest, cs)
                   /\ UNCHANGED <<variant, db, store, locals>>
              ELSE /\ Goto(r, "auth", cs)
                   /\ videoID' = [videoID EXCEPT ![r] = p]
                   /\ UNCHANGED <<shared, userID, aspectRatio, video, tmpLocalFile,
                                  fastStartVideoLocation, videoOrientation,
                                  randomHex, deferred>>

\* lines 31-41: GetBearerToken, ValidateJWT
Authenticate(r) ==
    /\ pc[r] = "auth"
    /\ UNCHANGED aux
    /\ \E t \in Tokens :
          IF t = "none"
          THEN /\ Fail(r, StatusUnauthorized,
                       Append(calls[r], Call("GetBearerToken", <<>>, FALSE)))
               /\ UNCHANGED <<variant, db, store, locals>>
          ELSE IF t = "invalid"
          THEN /\ Fail(r, StatusUnauthorized,
                       calls[r] \o <<Call("GetBearerToken", <<>>, TRUE),
                                     Call("ValidateJWT", <<>>, FALSE)>>)
               /\ UNCHANGED <<variant, db, store, locals>>
          ELSE /\ Goto(r, "getVideo",
                       calls[r] \o <<Call("GetBearerToken", <<>>, TRUE),
                                     Call("ValidateJWT", <<>>, TRUE)>>)
               /\ userID' = [userID EXCEPT ![r] = t]
               /\ UNCHANGED <<shared, videoID, aspectRatio, video, tmpLocalFile,
                              fastStartVideoLocation, videoOrientation,
                              randomHex, deferred>>

\* lines 43-53: read the record, check the owner
GetVideo(r) ==
    /\ pc[r] = "getVideo"
    /\ UNCHANGED aux
    /\ IF videoID[r] \notin DOMAIN db
       THEN /\ Fail(r, StatusNotFound,
                    Append(calls[r], Call("GetVideo", <<>>, FALSE)))
            /\ UNCHANGED <<variant, db, store, locals>>
       ELSE LET v == db[videoID[r]]
                cs == Append(calls[r], Call("GetVideo", v.VideoURL.val, TRUE))
            IN  /\ video' = [video EXCEPT ![r] = v]
                /\ IF ~IsOwner(v, userID[r])
                   THEN /\ Fail(r, StatusUnauthorized, cs)
                        /\ UNCHANGED <<variant, db, store>>
                   ELSE /\ Goto(r, "parseForm", cs)
                        /\ UNCHANGED shared
                /\ UNCHANGED <<videoID, aspectRatio, userID, tmpLocalFile,
                               fastStartVideoLocation, videoOrientation,
                               randomHex, deferred>>

\* lines 55-69: ParseMultipartForm reads the body through the byte ceiling,
\* FormFile picks the "video" part; defer videoFile.Close().  The call
\* record says whether the body read was over the ceiling
ParseForm(r) ==
    /\ pc[r] = "parseForm"
    /\ UNCHANGED aux
    /\ \E size \in BodySizes, body \in {"ok", "malformed", "no video part"} :
          LET length == <<IF size > MaxUpload THEN "over" ELSE "within">>
          IN  IF ExceedsLimit(size) \/ body = "malformed"
              THEN /\ Fail(r, StatusBadRequest,
                           Append(calls[r], Call("ParseMultipartForm", length, FALSE)))
                   /\ UNCHANGED <<variant, db, store, locals>>
              ELSE IF body = "no video part"
              THEN /\ Fail(r, StatusBadRequest,
                           calls[r] \o <<Call("ParseMultipartForm", length, TRUE),
                                         Call("FormFile", <<>>, FALSE)>>)
                   /\ UNCHANGED <<variant, db, store, locals>>
              ELSE /\ Goto(r, "sniff",
                           calls[r] \o <<Call("ParseMultipartForm", length, TRUE),
                                         Call("FormFile", <<>>, TRUE)>>)
                   /\ UNCHANGED <<shared, locals>>

\* lines 71-91: read the first 512 bytes, seek back, detect the content type
\* (sniffed is what these bytes are, declared what the client's header says)
Sniff(r) ==
    /\ pc[r] = "sniff"
    /\ UNCHANGED aux
    /\ \/ \E op \in {"Read", "Seek"} :
             /\ Fail(r, StatusInternalServerError,
                     Append(calls[r], Call(op, <<>>, FALSE)))
             /\ UNCHANGED <<variant, db, store, locals>>
       \/ \E sniffed \in MediaTypes, declared \in MediaTypes :
             LET mediaType == DetectedType(sniffed, declared)
                 cs == Append(calls[r],
                              Call("DetectContentType", <<sniffed>>,
                                   mediaType = "video/mp4"))
             IN  IF mediaType # "video/mp4"
                 THEN /\ Fail(r, StatusBadRequest, cs)
                      /\ UNCHANGED <<variant, db, store, locals>>
                 ELSE /\ Goto(r, "createTemp", cs)
                      /\ UNCHANGED <<shared, locals>>

\* lines 93-99: os.CreateTemp; on an error the handler answers and does not
\* return, and tmpLocalFile.Name() on the nil file panics before any removal
\* is deferred.  defer os.Remove(tmpLocalFile.Name())
CreateTemp(r) ==
    /\ pc[r] = "createTemp"
    /\ UNCHANGED aux
    /\ \/ /\ responses' = [responses EXCEPT ![r] = Append(@, StatusInternalServerError)]
          /\ calls' = [calls EXCEPT ![r] = Append(@, Call("CreateTemp", <<>>, FALSE))]
          /\ pc' = [pc EXCEPT ![r] = "panicked"]
          /\ files' = RunDefers(files, deferred[r])
          /\ UNCHANGED <<variant, db, store, locals>>
       \/ LET n == FreeName(files)
          IN /\ \E m \in TmpNames : ~Exists(files, TempPath(m))
             /\ files' = files \cup {File(TempPath(n), r)}
             /\ tmpLocalFile' = [tmpLocalFile EXCEPT ![r] = TempPath(n)]
             /\ deferred' = [deferred EXCEPT ![r] = @ \cup {TempPath(n)}]
             /\ Goto(r, "copy", Append(calls[r], Call("CreateTemp", TempPath(n), TRUE)))
             /\ UNCHANGED <<variant, db, store, videoID, aspectRatio, userID, video,
                            fastStartVideoLocation, videoOrientation, randomHex>>

\* lines 101-106: io.Copy(tmpLocalFile, videoFile)
Copy(r) ==
    /\ pc[r] = "copy"
    /\ UNCHANGED aux
    /\ \E ok \in BOOLEAN :
          LET cs == Append(calls[r], Call("Copy", tmpLocalFile[r], ok))
          IN  /\ IF ok THEN Goto(r, "probe", cs) /\ UNCHANGED files
                       ELSE Fail(r, StatusInternalServerError, cs)
              /\ UNCHANGED <<variant, db, store, locals>>

\* lines 108-121: getVideoAspectRatio; on an error the handler answers and
\* does not return: aspectRatio is "" and the switch takes its default
Probe(r) ==
    /\ pc[r] = "probe"
    /\ UNCHANGED aux
    /\ \E run \in FFProbeRuns :
          LET res == getVideoAspectRatio(run)
          IN  /\ aspectRatio' = [aspectRatio EXCEPT ![r] = res.val]
              /\ videoOrientation' = [videoOrientation EXCEPT ![r] = Orientation(res.val)]
              /\ responses' = [responses EXCEPT ![r] =
                    IF res.err = "nil" THEN @ ELSE Append(@, StatusInternalServerError)]
              /\ calls' = [calls EXCEPT ![r] =
                    Append(@, Call("ffprobe", tmpLocalFile[r], res.err = "nil"))]
              /\ pc' = [pc EXCEPT ![r] = "seek"]
              /\ UNCHANGED <<shared, videoID, userID, video, tmpLocalFile,
                             fastStartVideoLocation, randomHex, deferred>>

\* lines 123-128: tmpLocalFile.Seek(0, io.SeekStart); then the remuxer in
\* part_002, the upload in handler_upload_video.go
SeekStart(r) ==
    /\ pc[r] = "seek"
    /\ UNCHANGED aux
    /\ \E ok \in BOOLEAN :
          IF ok
          THEN /\ Goto(r, IF variant = "pair" THEN "remux" ELSE "putObject", calls[r])
               /\ UNCHANGED <<shared, locals>>
          ELSE /\ Fail(r, StatusInternalServerError,
                       Append(calls[r], Call("Seek", tmpLocalFile[r], FALSE)))
               /\ UNCHANGED <<variant, db, store, locals>>

\* lines 130-135 and processVideoForFastStart: ffmpeg writes
\* filePath + ".processing".  It is run without -y, so it does not write
\* over an existing file; when it fails it may have written a part of its
\* output
Remux(r) ==
    /\ pc[r] = "remux"
    /\ UNCHANGED aux
    /\ LET out == ProcessingPath(tmpLocalFile[r])
       IN  \/ /\ ~Exists(files, out)
              /\ fastStartVideoLocation' = [fastStartVideoLocation EXCEPT ![r] = out]
              /\ files' = files \cup {File(out, r)}
              /\ Goto(r, "open", Append(calls[r], Call("ffmpeg", tmpLocalFile[r], TRUE)))
              /\ UNCHANGED <<variant, db, store, videoID, aspectRatio, userID, video,
                             tmpLocalFile, videoOrientation, randomHex, deferred>>
           \/ \E partial \in BOOLEAN :
                 /\ responses' = [responses EXCEPT ![r] = Append(@, StatusInternalServerError)]
                 /\ calls' = [calls EXCEPT ![r] =
                                 Append(@, Call("ffmpeg", tmpLocalFile[r], FALSE))]
                 /\ pc' = [pc EXCEPT ![r] = "done"]
                 /\ files' = RunDefers(IF partial /\ ~Exists(files, out)
                                       THEN files \cup {File(out, r)} ELSE files,
                                       deferred[r])
                 /\ UNCHANGED <<variant, db, store, locals>>

\* lines 137-144: os.Open(fastStartVideoLocation); the removal of the
\* processed file is deferred only after the file was opened
OpenProcessed(r) ==
    /\ pc[r] = "open"
    /\ UNCHANGED aux
    /\ \E ok \in BOOLEAN :
          LET cs == Append(calls[r], Call("Open", fastStartVideoLocation[r], ok))
          IN  IF ok
              THEN /\ deferred' = [deferred EXCEPT ![r] =
                                      @ \cup {fastStartVideoLocation[r]}]
                   /\ Goto(r, "putObject", cs)
                   /\ UNCHANGED <<shared, videoID, aspectRatio, userID, video, tmpLocalFile,
                                  fastStartVideoLocation, videoOrientation,
                                  randomHex>>
              ELSE /\ Fail(r, StatusInternalServerError, cs)
                   /\ UNCHANGED <<variant, db, store, locals>>

\* the file the handler passes as Body: the processed file in part_002,
\* the staged file in handler_upload_video.go
UploadBody(v, r) == IF v = "pair" THEN fastStartVideoLocation[r] ELSE tmpLocalFile[r]

\* lines 146-167: rand.Read, hex.EncodeToString, PutObject
PutObject(r) ==
    /\ pc[r] = "putObject"
    /\ UNCHANGED aux
    /\ \/ /\ Fail(r, StatusInternalServerError,
                  Append(calls[r], Call("rand.Read", <<>>, FALSE)))
          /\ UNCHANGED <<variant, db, store, locals>>
       \/ \E ok \in BOOLEAN :
             LET key == ObjectKey(videoOrientation[r], RandomHex(r))
                 cs == calls[r] \o <<Call("rand.Read", <<>>, TRUE),
                                     PutCall(key, UploadBody(variant, r), ok)>>
                 next == AfterPutObject(ok)
             IN  /\ randomHex' = [randomHex EXCEPT ![r] = RandomHex(r)]
                 /\ store' = IF ok THEN store \cup {key} ELSE store
                 /\ calls' = [calls EXCEPT ![r] = cs]
                 /\ responses' = [responses EXCEPT ![r] =
                       IF ok THEN @ ELSE Append(@, StatusInternalServerError)]
                 /\ pc' = [pc EXCEPT ![r] = IF next = "return" THEN "done" ELSE next]
                 /\ files' = IF next = "return" THEN RunDefers(files, deferred[r])
                             ELSE files
                 /\ UNCHANGED <<variant, db, videoID, aspectRatio, userID, video, tmpLocalFile,
                                fastStartVideoLocation, videoOrientation, deferred>>

\* lines 169-192: when the record read at the start had a reference, split
\* it and delete the object under the key after the separator
DeleteOld(r) ==
    /\ pc[r] = "deleteOld"
    /\ UNCHANGED aux
    /\ IF ~HasOldVideo(video[r])
       THEN /\ Goto(r, "updateVideo", calls[r])
            /\ UNCHANGED <<shared, locals>>
       ELSE LET splitURL == DecodeRef(video[r].VideoURL.val, Separator(variant))
            IN  IF Len(splitURL) < 2
                THEN LET cs == Append(calls[r],
                                      Call("SplitN", video[r].VideoURL.val, FALSE))
                     IN  /\ IF AfterSplitN(FALSE) = "return"
                            THEN Fail(r, StatusInternalServerError, cs)
                            ELSE Goto(r, AfterSplitN(FALSE), cs) /\ UNCHANGED files
                         /\ UNCHANGED <<variant, db, store, locals>>
                ELSE \E ok \in BOOLEAN :
                        LET key == DeleteKey(splitURL[2],
                                             ObjectKey(videoOrientation[r], randomHex[r]))
                            next == AfterDeleteObject(ok)
                        IN  /\ store' = IF ok THEN store \ {key} ELSE store
                            /\ calls' = [calls EXCEPT ![r] =
                                            Append(@, Call("DeleteObject", key, ok))]
                            /\ responses' = [responses EXCEPT ![r] =
                                  IF ok THEN @ ELSE Append(@, StatusInternalServerError)]
                            /\ pc' = [pc EXCEPT ![r] =
                                         IF next = "return" THEN "done" ELSE next]
                            /\ files' = IF next = "return"
                                        THEN RunDefers(files, deferred[r]) ELSE files
                            /\ UNCHANGED <<variant, db, locals>>

\* lines 194-208: set the new reference on the record read at the start,
\* write the record, answer 200, return
UpdateVideo(r) ==
    /\ pc[r] = "updateVideo"
    /\ UNCHANGED aux
    /\ LET videoURL == EncodeVideoURL(variant, videoOrientation[r], randomHex[r])
           updated == [video[r] EXCEPT !.VideoURL = Ptr(videoURL)]
       IN  /\ video' = [video EXCEPT ![r] = updated]
           /\ \E ok \in BOOLEAN :
                 /\ db' = IF ok THEN [db EXCEPT ![videoID[r]] = updated] ELSE db
                 /\ responses' = [responses EXCEPT ![r] =
                       Append(@, IF ok THEN StatusOK ELSE StatusInternalServerError)]
                 /\ calls' = [calls EXCEPT ![r] = Append(@, Call("UpdateVideo", videoURL, ok))]
           /\ pc' = [pc EXCEPT ![r] = "done"]
           /\ files' = RunDefers(files, deferred[r])
           /\ UNCHANGED <<variant, store, videoID, aspectRatio, userID, tmpLocalFile,
                          fastStartVideoLocation, videoOrientation, randomHex,
                          deferred>>

Next ==
    \E r \in Reqs :
        \/ Begin(r)
        \/ Authenticate(r)
        \/ GetVideo(r)
        \/ ParseForm(r)
        \/ Sniff(r)
        \/ CreateTemp(r)
        \/ Copy(r)
        \/ Probe(r)
        \/ SeekStart(r)
        \/ Remux(r)
        \/ OpenProcessed(r)
        \/ PutObject(r)
        \/ DeleteOld(r)
        \/ UpdateVideo(r)

Spec == Init /\ [][Next]_vars

\* ------------------------------------ handlerUploadThumbnail (part_001)
\* The handler that keeps the thumbnail in the map videoThumbnails of the
\* process.  The line numbers are those of src/unnamed/part_001.
InitThumbnail ==
    /\ variant = "pair"
    /\ db = [id \in {"v1"} |-> [UserID |-> "u1", VideoURL |-> Nil, ThumbnailURL |-> Nil]]
    /\ store = {}
    /\ files = {}
    /\ InitLocals
    /\ videoThumbnails = NoThumbnails
    /\ input = NoInput
    /\ output = NoOutput

\* thumbnail{data: imageData, mediaType: mediaType}: io.ReadAll(r.Body) runs
\* after ParseMultipartForm has read the body, so the data is what is left
\* of it, nothing; the media type is the Content-Type header of the request
Thumbnail(mediaType) == [data |-> <<>>, mediaType |-> mediaType]

\* fmt.Sprintf("http://localhost:%s/api/thumbnails/%s", cfg.port, videoID)
ThumbnailURL(id) == <<"http://localhost:", "port", "/api/thumbnails/", id>>

\* the requests inside the assignment to the map
MapWriters == {r \in Reqs : pc[r] = "mapassigning"}

\* the runtime finds a second writer in the map: fatal error: concurrent map
\* writes, the process ends
Throw ==
    /\ pc' = [q \in Reqs |-> "fatal"]
    /\ UNCHANGED <<shared, locals, calls, responses, aux>>

\* lines 13-30: uuid.Parse, GetBearerToken, ValidateJWT
ThumbnailBegin(r) ==
    /\ pc[r] = "start"
    /\ UNCHANGED aux
    /\ \E p \in PathValues, t \in Tokens :
          IF p = "not-a-uuid"
          THEN /\ Fail(r, StatusBadRequest,
                       Append(calls[r], Call("uuid.Parse", <<>>, FALSE)))
               /\ UNCHANGED <<variant, db, store, locals>>
          ELSE IF t \notin Users
          THEN /\ Fail(r, StatusUnauthorized,
                       calls[r] \o <<Call("uuid.Parse", <<>>, TRUE),
                                     Call(IF t = "none" THEN "GetBearerToken"
                                          ELSE "ValidateJWT", <<>>, FALSE)>>)
               /\ UNCHANGED <<variant, db, store, locals>>
          ELSE /\ Goto(r, "parseForm",
                       calls[r] \o <<Call("uuid.Parse", <<>>, TRUE),
                                     Call("ValidateJWT", <<>>, TRUE)>>)
               /\ videoID' = [videoID EXCEPT ![r] = p]
               /\ userID' = [userID EXCEPT ![r] = t]
               /\ UNCHANGED <<shared, video, tmpLocalFile, fastStartVideoLocation,
                              aspectRatio, videoOrientation, randomHex, deferred>>

\* lines 35-56: ParseMultipartForm, FormFile("thumbnail"), io.ReadAll
ThumbnailParseForm(r) ==
    /\ pc[r] = "parseForm"
    /\ UNCHANGED aux
    /\ \E failing \in {"ParseMultipartForm", "FormFile", "ReadAll", "none"} :
          IF failing # "none"
          THEN /\ Fail(r, IF failing = "ReadAll" THEN StatusInternalServerError
                          ELSE StatusBadRequest,
                       Append(calls[r], Call(failing, <<>>, FALSE)))
               /\ UNCHANGED <<variant, db, store, locals>>
          ELSE /\ Goto(r, "getVideo", Append(calls[r], Call("ReadAll", <<>>, TRUE)))
               /\ UNCHANGED <<shared, locals>>

\* lines 58-68: read the record, check the owner
ThumbnailGetVideo(r) ==
    /\ pc[r] = "getVideo"
    /\ UNCHANGED aux
    /\ IF videoID[r] \notin DOMAIN db
       THEN /\ Fail(r, StatusNotFound,
                    Append(calls[r], Call("GetVideo", <<>>, FALSE)))
            /\ UNCHANGED <<variant, db, store, locals>>
       ELSE LET v == db[videoID[r]]
                cs == Append(calls[r], Call("GetVideo", v.VideoURL.val, TRUE))
            IN  /\ video' = [video EXCEPT ![r] = v]
                /\ IF ~IsOwner(v, userID[r])
                   THEN /\ Fail(r, StatusUnauthorized, cs)
                        /\ UNCHANGED <<variant, db, store>>
                   ELSE /\ Goto(r, "mapassign", cs)
                        /\ UNCHANGED shared
                /\ UNCHANGED <<videoID, userID, tmpLocalFile, fastStartVideoLocation,
                               aspectRatio, videoOrientation, randomHex, deferred>>

\* lines 70-74, the assignment begins: no lock is taken.  With another
\* request inside the assignment this is a data race: the runtime may notice
\* the other writer and end the process, or not
MapAssignBegin(r) ==
    /\ pc[r] = "mapassign"
    /\ \/ /\ pc' = [pc EXCEPT ![r] = "mapassigning"]
          /\ UNCHANGED <<shared, locals, calls, responses, aux>>
       \/ /\ MapWriters # {}
          /\ Throw

\* lines 70-74, the assignment ends: the entry of the record is the
\* thumbnail of this request, unless the runtime notices another writer
MapAssignEnd(r) ==
    /\ pc[r] = "mapassigning"
    /\ \/ \E mediaType \in MediaTypes :
             /\ videoThumbnails' =
                   [id \in DOMAIN videoThumbnails \cup {videoID[r]} |->
                       IF id = videoID[r] THEN Thumbnail(mediaType)
                       ELSE videoThumbnails[id]]
             /\ pc' = [pc EXCEPT ![r] = "updateVideo"]
             /\ UNCHANGED <<shared, locals, calls, responses, input, output>>
       \/ /\ MapWriters # {r}
          /\ Throw

\* lines 76-86: set the thumbnail URL, write the record, answer 200
ThumbnailUpdateVideo(r) ==
    /\ pc[r] = "updateVideo"
    /\ UNCHANGED aux
    /\ LET updated == [video[r] EXCEPT !.ThumbnailURL = Ptr(ThumbnailURL(videoID[r]))]
       IN  /\ video' = [video EXCEPT ![r] = updated]
           /\ \E ok \in BOOLEAN :
                 /\ db' = IF ok THEN [db EXCEPT ![videoID[r]] = updated] ELSE db
                 /\ responses' = [responses EXCEPT ![r] =
                       Append(@, IF ok THEN StatusOK ELSE StatusInternalServerError)]
                 /\ calls' = [calls EXCEPT ![r] =
                       Append(@, Call("UpdateVideo", ThumbnailURL(videoID[r]), ok))]
           /\ pc' = [pc EXCEPT ![r] = "done"]
           /\ UNCHANGED <<variant, store, files, videoID, userID, tmpLocalFile,
                          fastStartVideoLocation, aspectRatio, videoOrientation,
                          randomHex, deferred>>

NextThumbnail ==
    \E r \in Reqs :
        \/ ThumbnailBegin(r)
        \/ ThumbnailParseForm(r)
        \/ ThumbnailGetVideo(r)
        \/ MapAssignBegin(r)
        \/ MapAssignEnd(r)
        \/ ThumbnailUpdateVideo(r)

SpecThumbnail == InitThumbnail /\ [][NextThumbnail]_vars

\* ------------------------------------------- dbVideoToSignedVideo (helpers.go)
\* req.URL of PresignGetObject: a URL of the object with a signature
PresignedURL(bucket, key) ==
    <<"https://">> \o bucket \o <<".s3.amazonaws.com/">> \o key \o <<"?X-Amz-Signature=">>

\* generatePresignedURL(cfg.s3Client, bucket, key, expireTime)
generatePresignedURL(bucket, key, ok) ==
    IF ok THEN [val |-> PresignedURL(bucket, key), err |-> "nil"]
    ELSE [val |-> <<>>, err |-> "error generating presigned URL"]

\* the record and the error returned, and whether the presigner was called
Signed(v, err, presigned) == [video |-> v, err |-> err, presigned |-> presigned]

\* mutant: the number of parts of the reference is not looked at
dbVideoToSignedVideoUnchecked(v, ok) ==
    IF v.VideoURL.isNil THEN Signed(v, "nil", FALSE)
    ELSE LET splitURL == DecodeRef(v.VideoURL.val, <<",">>)
             url == generatePresignedURL(splitURL[1], <<>>, ok)
         IN  IF url.err # "nil"
             THEN Signed(v, "unable to generate presigned URL", TRUE)
             ELSE Signed([v EXCEPT !.VideoURL = Ptr(url.val)], "nil", TRUE)

\* dbVideoToSignedVideo(video): video is a copy of the caller's record; ok
\* says whether the presigner succeeds
dbVideoToSignedVideo(v, ok) ==
    IF v.VideoURL.isNil THEN Signed(v, "nil", FALSE)
    ELSE LET splitURL == DecodeRef(v.VideoURL.val, <<",">>)
         IN  IF Len(splitURL) < 2
             THEN Signed(v, "invalid video URL format", FALSE)
             ELSE LET url == generatePresignedURL(splitURL[1], splitURL[2], ok)
                  IN  IF url.err # "nil"
                      THEN Signed(v, "unable to generate presigned URL", TRUE)
                      ELSE Signed([v EXCEPT !.VideoURL = Ptr(url.val)], "nil", TRUE)

\* the "bucket,key" handler runs on a record whose reference is absent or
\* was written in either encoding
InitSigned ==
    /\ variant = "pair"
    /\ \E u \in InitURLs :
          /\ db = [id \in {"v1"} |-> [UserID |-> "u1", VideoURL |-> u,
                                         ThumbnailURL |-> Nil]]
          /\ store = IF u.isNil THEN {} ELSE {InitKey}
    /\ files = {}
    /\ InitLocals
    /\ videoThumbnails = NoThumbnails
    /\ input = NoInput
    /\ output = NoOutput

\* a record is read and passed through dbVideoToSignedVideo
ReadSigned ==
    \E id \in DOMAIN db, ok \in BOOLEAN :
        /\ input' = [fn |-> "dbVideoToSignedVideo", video |-> db[id]]
        /\ output' = [done |-> TRUE, val |-> dbVideoToSignedVideo(db[id], ok)]
        /\ UNCHANGED <<shared, pc, locals, calls, responses, videoThumbnails>>

NextSigned ==
    \/ Next
    \/ ReadSigned

SpecSigned == InitSigned /\ [][NextSigned]_vars

\* --------------------------------------------- the helpers on their own
\* The reference encoding is run on its own on buckets and random parts that
\* may hold the separators.
MaxLen == 2
Strings(chars) == UNION {[1..n -> chars] : n \in 1..MaxLen}
BucketChars == {"b", ",", "amazonaws.com/"}
HexChars == {"0f", ",", "amazonaws.com/"}
Orientations == {"landscape", "portrait", "other"}

CodecInputs ==
    {[fn |-> "codec", variant |-> v, bucket |-> b, orientation |-> o, hex |-> h] :
        v \in {"pair", "url"}, b \in Strings(BucketChars),
        o \in Orientations, h \in Strings(HexChars)}

\* the strings the switch is run on: the ratios of the prober, other ratios
\* and strings that are no ratio
RatioStrings == AspectRatios \cup {"32:18", "16:9 ", "16x9", "9:16:9", "landscape"}

OrientationInputs == {[fn |-> "Orientation", ratio |-> a] : a \in RatioStrings}

ProberInputs == {[fn |-> "getVideoAspectRatio", run |-> run] : run \in FFProbeRuns}

HelperInputs == CodecInputs \cup OrientationInputs \cup ProberInputs

InitHelpers ==
    /\ variant = "pair"
    /\ db = [id \in {"v1"} |-> [UserID |-> "u1", VideoURL |-> Nil, ThumbnailURL |-> Nil]]
    /\ store = {}
    /\ files = {}
    /\ InitLocals
    /\ videoThumbnails = NoThumbnails
    /\ input \in HelperInputs
    /\ output = NoOutput

Return(val) ==
    /\ ~output.done
    /\ output' = [done |-> TRUE, val |-> val]
    /\ UNCHANGED <<shared, pc, locals, calls, responses, videoThumbnails, input>>

\* a reference is written (part_002:195, handler_upload_video.go:181) and
\* split again (part_002:176, handler_upload_video.go:162, helpers.go:104)
ApplyCodec ==
    /\ input.fn = "codec"
    /\ Return(DecodeRef(EncodeRef(input.variant, input.bucket,
                                  input.orientation, input.hex),
                        Separator(input.variant)))

\* the switch of part_002:113-121 on a string
ApplyOrientation ==
    /\ input.fn = "Orientation"
    /\ Return(Orientation(input.ratio))

\* getVideoAspectRatio of helpers.go on a run of the analyzer
ApplyGetVideoAspectRatio ==
    /\ input.fn = "getVideoAspectRatio"
    /\ Return(getVideoAspectRatio(input.run))

NextHelpers ==
    \/ ApplyCodec
    \/ ApplyOrientation
    \/ ApplyGetVideoAspectRatio

SpecHelpers == InitHelpers /\ [][NextHelpers]_vars

\* ------------------------------------------------------------- properties
Positions(r) == 1..Len(calls[r])
Issued(r, op) == \E i \in Positions(r) : calls[r][i].op = op
Has(r, op, ok) == \E i \in Positions(r) : calls[r][i].op = op /\ calls[r][i].ok = ok
Count(r, op) == Cardinality({i \in Positions(r) : calls[r][i].op = op})
Returned(r) == pc[r] \in {"done", "panicked"}
AnsweredError(r) == \E i \in 1..Len(responses[r]) : responses[r][i] >= 400
Answered200(r) == \E i \in 1..Len(responses[r]) : responses[r][i] = StatusOK
\* the reference the request read from the record, <<>> when it had none
PriorRef(r) ==
    IF ~Issued(r, "GetVideo") THEN <<>>
    ELSE LET i == CHOOSE i \in Positions(r) : calls[r][i].op = "GetVideo"
         IN  calls[r][i].arg
\* the key and the reference of the object the request uploads
NewKey(r) == ObjectKey(videoOrientation[r], randomHex[r])
NewRef(r) == EncodeVideoURL(variant, videoOrientation[r], randomHex[r])
\* the key a stored reference names, in whichever encoding it was written
RefKey(ref) ==
    LET url == SplitN(ref, <<"amazonaws.com/">>)
        pair == SplitN(ref, <<",">>)
    IN  IF Len(url) = 2 THEN url[2] ELSE IF Len(pair) = 2 THEN pair[2] ELSE <<>>
\* the files on disk that the request created
FilesOf(r) == {f \in files : f.by = r}

\* C1: a request issues DeleteObject only after a PutObject of the same
\* request has returned without error.
C1_DeleteOnlyAfterUpload ==
    \A r \in Reqs : \A i \in Positions(r) :
        calls[r][i].op = "DeleteObject" =>
            \E j \in 1..(i - 1) : calls[r][j].op = "PutObject" /\ calls[r][j].ok

C1_Witness ==
    \E r \in Reqs : Has(r, "PutObject", TRUE) /\ Issued(r, "DeleteObject")

\* C2: once a request has completed, whatever its outcome, no staged or
\* processed file that it created is on disk.
C2_NoEphemeralFileAfterRequest ==
    \A r \in Reqs : Returned(r) => FilesOf(r) = {}

\* C3: when getVideoAspectRatio returns an error the request stops: no
\* orientation is set, and the remuxer, the upload and the record update are
\* not run.
C3_ProbeFailureStops ==
    \A r \in Reqs :
        Has(r, "ffprobe", FALSE) =>
            /\ Returned(r)
            /\ videoOrientation[r] = ""
            /\ ~Issued(r, "ffmpeg")
            /\ ~Issued(r, "PutObject")
            /\ ~Issued(r, "UpdateVideo")
            /\ FilesOf(r) = {}

\* C4: a request that answers with an error has not written the record.
C4_ErrorLeavesRecord ==
    \A r \in Reqs : AnsweredError(r) => ~Has(r, "UpdateVideo", TRUE)

\* C5 as claimed: the object that the record's reference names is in the
\* store, in every state an ingestion can stop in.
C5_ReferencedObjectPresent ==
    \A id \in DOMAIN db :
        ~db[id].VideoURL.isNil => RefKey(db[id].VideoURL.val) \in store

\* C5 as amended: the object that the record's reference names is missing
\* from the store only when a request deleted it after its own upload had
\* succeeded and that request has not written the record; a request that
\* stops before its delete succeeds has not removed it.
C5_ReferencedObjectPresentUntilDelete ==
    \A id \in DOMAIN db :
        (~db[id].VideoURL.isNil /\ RefKey(db[id].VideoURL.val) \notin store) =>
            \E r \in Reqs : \E i, j \in Positions(r) :
                /\ i < j
                /\ calls[r][i].op = "PutObject" /\ calls[r][i].ok
                /\ calls[r][j].op = "DeleteObject" /\ calls[r][j].ok
                /\ calls[r][j].arg = RefKey(db[id].VideoURL.val)
                /\ ~Has(r, "UpdateVideo", TRUE)

C5_Witness ==
    \E r \in Reqs :
        /\ pc[r] = "done"
        /\ Has(r, "PutObject", TRUE)
        /\ Has(r, "DeleteObject", FALSE)
        /\ PriorRef(r) # <<>>
        /\ db[videoID[r]].VideoURL.val = PriorRef(r)
        /\ RefKey(PriorRef(r)) \in store

\* C6: a successful ingestion has issued exactly one PutObject, exactly one
\* DeleteObject when the record it read had a reference and none otherwise,
\* and exactly one UpdateVideo; no request issues any of them twice.
C6_OneUploadOneDeleteOneUpdate ==
    \A r \in Reqs :
        /\ Count(r, "PutObject") <= 1
        /\ Count(r, "DeleteObject") <= 1
        /\ Count(r, "UpdateVideo") <= 1
        /\ (pc[r] = "done" /\ Has(r, "UpdateVideo", TRUE)) =>
              /\ Count(r, "PutObject") = 1
              /\ Count(r, "DeleteObject") = (IF PriorRef(r) # <<>> THEN 1 ELSE 0)
              /\ Count(r, "UpdateVideo") = 1

C6_Witness ==
    \E r \in Reqs :
        /\ pc[r] = "done" /\ Has(r, "UpdateVideo", TRUE)
        /\ PriorRef(r) # <<>>
        /\ Count(r, "DeleteObject") = 1

\* C7: when DeleteObject fails after the upload succeeded, the request
\* answers with an error and stops, it does not write the record (which keeps
\* the reference the request read unless another request wrote it), and the
\* uploaded object stays in the store with no record naming it.
C7_DeleteFailureLeavesOrphan ==
    \A r \in Reqs :
        Has(r, "DeleteObject", FALSE) =>
            /\ pc[r] = "done"
            /\ responses[r][Len(responses[r])] = StatusInternalServerError
            /\ ~Answered200(r)
            /\ ~Issued(r, "UpdateVideo")
            /\ NewKey(r) \in store
            /\ \A id \in DOMAIN db : db[id].VideoURL # Ptr(NewRef(r))
            /\ \/ db[videoID[r]].VideoURL = Ptr(PriorRef(r))
               \/ \E q \in Reqs \ {r} : Has(q, "UpdateVideo", TRUE)

C7_Witness ==
    \E r \in Reqs :
        /\ Has(r, "PutObject", TRUE)
        /\ Has(r, "DeleteObject", FALSE)
        /\ db[videoID[r]].VideoURL = Ptr(PriorRef(r))
        /\ NewKey(r) \in store

\* C8: when PutObject fails, the request stops without a DeleteObject and
\* without a record update, and the files it created are removed.
C8_UploadFailureAborts ==
    \A r \in Reqs :
        Has(r, "PutObject", FALSE) =>
            /\ pc[r] = "done"
            /\ AnsweredError(r) /\ ~Answered200(r)
            /\ ~Issued(r, "DeleteObject")
            /\ ~Issued(r, "UpdateVideo")
            /\ FilesOf(r) = {}

C8_Witness ==
    \E r \in Reqs :
        /\ variant = "pair"
        /\ Has(r, "PutObject", FALSE)
        /\ Has(r, "ffmpeg", TRUE)
        /\ PriorRef(r) # <<>>
        /\ RefKey(PriorRef(r)) \in store

\* the request was turned down at the record: no such record, or the caller
\* is not its owner
Unauthorized(r) ==
    \/ Has(r, "GetVideo", FALSE)
    \/ Has(r, "GetVideo", TRUE) /\ userID[r] # db[videoID[r]].UserID

\* C9: a request for a missing record or by a caller who is not the owner
\* stops before it parses the body, creates a file, runs a tool, calls the
\* object store or writes the record; so only the owner's requests do any of
\* these.
C9_RejectedBeforeAnyIO ==
    \A r \in Reqs :
        /\ Unauthorized(r) =>
              /\ pc[r] = "done"
              /\ \A i \in Positions(r) :
                    calls[r][i].op \in {"MaxBytesReader", "uuid.Parse",
                                        "GetBearerToken", "ValidateJWT", "GetVideo"}
              /\ FilesOf(r) = {}
              /\ AnsweredError(r) /\ ~Answered200(r)
        /\ (\E i \in Positions(r) :
                calls[r][i].op \in {"ParseMultipartForm", "CreateTemp", "ffprobe",
                                    "ffmpeg", "PutObject", "DeleteObject",
                                    "UpdateVideo"}) =>
              /\ videoID[r] \in DOMAIN db
              /\ userID[r] = db[videoID[r]].UserID

C9_Witness ==
    /\ \E r \in Reqs : Has(r, "GetVideo", TRUE) /\ userID[r] # db[videoID[r]].UserID
    /\ \E r \in Reqs : Has(r, "UpdateVideo", TRUE)

\* C10: the status of an error answer tells the class of the failure: 404 for
\* a missing record, 403 for a caller who is not the owner, 401 for a missing
\* or invalid token, 400 for a bad ID or a body that is no MP4, 500 for a
\* failure of the prober, the remuxer, the object store or the record store.
C10_StatusReflectsFailureClass ==
    \A r \in Reqs :
        /\ Has(r, "uuid.Parse", FALSE) => responses[r] = <<400>>
        /\ (Has(r, "GetBearerToken", FALSE) \/ Has(r, "ValidateJWT", FALSE)) =>
              responses[r] = <<401>>
        /\ Has(r, "GetVideo", FALSE) => responses[r] = <<404>>
        /\ (Has(r, "GetVideo", TRUE) /\ userID[r] # db[videoID[r]].UserID) =>
              responses[r] = <<403>>
        /\ Has(r, "DetectContentType", FALSE) => responses[r] = <<400>>
        /\ Has(r, "ffprobe", FALSE) => responses[r][1] = 500
        /\ (\/ Has(r, "ffmpeg", FALSE)
            \/ Has(r, "PutObject", FALSE)
            \/ Has(r, "DeleteObject", FALSE)
            \/ Has(r, "UpdateVideo", FALSE)) =>
              (Returned(r) /\ responses[r][Len(responses[r])] = 500)

\* C11: a request whose first 512 bytes are sniffed as anything other than
\* video/mp4, whatever type the client declared, is answered 400 and stops:
\* it creates no file, runs no tool, calls the object store not at all and
\* does not write the record.
C11_NonMP4Rejected ==
    \A r \in Reqs : \A i \in Positions(r) :
        (calls[r][i].op = "DetectContentType" /\ calls[r][i].arg # <<"video/mp4">>) =>
            /\ pc[r] = "done"
            /\ i = Len(calls[r])
            /\ responses[r] = <<StatusBadRequest>>
            /\ \A j \in Positions(r) :
                  calls[r][j].op \notin {"CreateTemp", "ffprobe", "ffmpeg", "PutObject",
                                         "DeleteObject", "UpdateVideo"}
            /\ FilesOf(r) = {}
            /\ tmpLocalFile[r] = <<>> /\ fastStartVideoLocation[r] = <<>>

C11_Witness ==
    \E r \in Reqs :
        /\ pc[r] = "done"
        /\ Has(r, "FormFile", TRUE)
        /\ \E i \in Positions(r) :
              calls[r][i].op = "DetectContentType" /\ calls[r][i].arg = <<"image/png">>

\* the request wrote the reference ref to the record after uploading under key
Ingested(q, key, ref) ==
    /\ \E j \in Positions(q) :
          calls[q][j].op = "PutObject" /\ calls[q][j].ok /\ calls[q][j].arg = key
    /\ \E k \in Positions(q) :
          calls[q][k].op = "UpdateVideo" /\ calls[q][k].ok /\ calls[q][k].arg = ref

\* C12: when a request finds on the record the reference that an earlier
\* successful ingestion of the same handler wrote, the DeleteObject it issues
\* names the key under which that ingestion uploaded its object (both calls
\* name the configured bucket).
C12_DeleteNamesPreviousUpload ==
    \A r \in Reqs : \A q \in Reqs \ {r} : \A i \in Positions(r) :
        (calls[r][i].op = "DeleteObject" /\ Ingested(q, NewKey(q), PriorRef(r))) =>
            calls[r][i].arg = NewKey(q)

C12_Witness ==
    \E r \in Reqs : \E q \in Reqs \ {r} :
        /\ Ingested(q, NewKey(q), PriorRef(r))
        /\ Has(r, "DeleteObject", TRUE)
        /\ Has(r, "UpdateVideo", TRUE)
        /\ NewKey(q) \notin store

\* the separator occurs in the string
Contains(s, sep) == Index(s, sep, 1) # 0

\* the helper was run on an input of the codec whose bucket and key are free
\* of the separator of the encoding
CodecCase ==
    /\ input.fn = "codec" /\ output.done
    /\ ~Contains(input.bucket, Separator(input.variant))
    /\ ~Contains(ObjectKey(input.orientation, input.hex), Separator(input.variant))

\* C13 as claimed: a reference that encodes a bucket and a key free of the
\* separator of its encoding splits into that bucket and that key.
C13_RoundTrip ==
    CodecCase => output.val = <<input.bucket, ObjectKey(input.orientation, input.hex)>>

\* C13 as amended: such a reference splits in two, the second part is the
\* key; the first part is the bucket in the "bucket,key" encoding, and in the
\* public URL it is the URL up to the separator, which holds the bucket and
\* the region.
C13_RoundTripKey ==
    CodecCase =>
        /\ Len(output.val) = 2
        /\ output.val[2] = ObjectKey(input.orientation, input.hex)
        /\ output.val[1] = IF input.variant = "pair" THEN input.bucket
                           ELSE <<"http://">> \o input.bucket \o <<".s3.">>
                                    \o S3Region \o <<".">>

C13_Witness ==
    /\ CodecCase
    /\ input.variant = "url"
    /\ Len(input.bucket) = 2
    /\ Contains(input.bucket, <<",">>)
    /\ output.val[2] = ObjectKey(input.orientation, input.hex)

\* the argument of the call op that the request made without error, <<>>
\* when it made none
ArgOf(r, op) ==
    IF ~Has(r, op, TRUE) THEN <<>>
    ELSE LET i == CHOOSE i \in Positions(r) : calls[r][i].op = op /\ calls[r][i].ok
         IN  calls[r][i].arg

\* C14: the reference a successful ingestion wrote to the record splits into
\* a key that is the key of the PutObject of the same request; the key is
\* "<orientation>/<random id>.mp4", the orientation being the class of the
\* aspect ratio the prober returned ("16:9" gives landscape).
C14_ReferenceNamesUploadedKey ==
    \A r \in Reqs :
        (pc[r] = "done" /\ Has(r, "UpdateVideo", TRUE)) =>
            LET key == ArgOf(r, "PutObject")
                split == DecodeRef(ArgOf(r, "UpdateVideo"), Separator(variant))
            IN  /\ Has(r, "PutObject", TRUE)
                /\ Len(split) = 2 /\ split[2] = key
                /\ key = <<Orientation(aspectRatio[r]), "/">> \o randomHex[r] \o <<".mp4">>
                /\ randomHex[r] # <<>>
                /\ key[1] \in Orientations
                /\ aspectRatio[r] = "16:9" => key[1] = "landscape"
                /\ aspectRatio[r] = "9:16" => key[1] = "portrait"

C14_Witness ==
    \E r \in Reqs :
        /\ pc[r] = "done" /\ Has(r, "UpdateVideo", TRUE)
        /\ Has(r, "ffprobe", TRUE)
        /\ aspectRatio[r] = "16:9"
        /\ ArgOf(r, "PutObject")[1] = "landscape"
        /\ db[videoID[r]].VideoURL = Ptr(ArgOf(r, "UpdateVideo"))
        /\ responses[r] = <<StatusOK>>

\* C15: the class of an aspect-ratio string is landscape for exactly "16:9",
\* portrait for exactly "9:16" and other for every other string, the empty
\* one, one that is no ratio and an equal ratio written otherwise included.
C15_OrientationByExactMatch ==
    (input.fn = "Orientation" /\ output.done) =>
        /\ output.val \in Orientations
        /\ output.val = "landscape" <=> input.ratio = "16:9"
        /\ output.val = "portrait" <=> input.ratio = "9:16"
        /\ output.val = "other" <=> input.ratio \notin {"16:9", "9:16"}

C15_Witness ==
    /\ input.fn = "Orientation" /\ output.done
    /\ input.ratio = "32:18"
    /\ output.val = "other"

\* getVideoAspectRatio has returned
ProberCase == input.fn = "getVideoAspectRatio" /\ output.done

\* what the claim says of the runs in which the analyzer exited
ProberOutcomeInOrder ==
    LET run == input.run
        res == output.val
    IN  /\ run.exit = "ExitError" =>
              res = Result("", "ffprobe failed", run.out)
        /\ (run.exit = "ok" /\ ~run.json) =>
              res = Result("", "error unmarshaling ffprobe output", "")
        /\ (run.exit = "ok" /\ run.json /\ run.streams = <<>>) =>
              res = Result("", "couldn't find video stream in ffprobe output", "")
        /\ (run.exit = "ok" /\ run.json /\ run.streams # <<>>) =>
              res = Result(run.streams[1], "nil", "")

\* C16 as claimed: getVideoAspectRatio returns one of three errors or no
\* error: the tool-failure error with the output of the analyzer when it
\* exited non-zero, else the malformed-output error when its output does not
\* parse, else the no-stream error when the output lists no stream, else the
\* display aspect ratio of the first stream.
C16_ThreeErrorOutcomes ==
    ProberCase =>
        /\ output.val.err \in {"ffprobe failed", "error unmarshaling ffprobe output",
                                "couldn't find video stream in ffprobe output", "nil"}
        /\ ProberOutcomeInOrder

\* C16 as amended: there is a fourth error, returned before the others count
\* when the analyzer could not be run at all (the error of CombinedOutput is
\* no *exec.ExitError); the four outcomes of the claim are as it says.
C16_FourErrorOutcomes ==
    ProberCase =>
        /\ input.run.exit \notin {"ok", "ExitError"} =>
              output.val = Result("", "unexpected error running ffprobe", "")
        /\ ProberOutcomeInOrder

C16_Witness ==
    /\ ProberCase
    /\ input.run.exit = "ExitError" /\ ~input.run.json /\ input.run.streams = <<>>
    /\ input.run.out = "moov atom not found"
    /\ output.val = Result("", "ffprobe failed", "moov atom not found")

\* C17: no two requests are inside the assignment to the map videoThumbnails
\* at the same time.
C17_MapAccessExclusive ==
    \A r \in Reqs : \A q \in Reqs \ {r} :
        ~(pc[r] = "mapassigning" /\ pc[q] = "mapassigning")

\* the request is running and holds the path of a staged or processed file
Holds(r, path) ==
    /\ ~Returned(r)
    /\ path # <<>>
    /\ path \in {tmpLocalFile[r], fastStartVideoLocation[r]}

\* the paths that the calls a request makes in this step read or write
Touched(r) ==
    {calls'[r][i].arg : i \in {j \in (Len(calls[r]) + 1)..Len(calls'[r]) :
        calls'[r][j].op \in {"Copy", "ffprobe", "ffmpeg", "Open"}}}
    \cup {calls'[r][i].body : i \in {j \in (Len(calls[r]) + 1)..Len(calls'[r]) :
        calls'[r][j].op = "PutObject"}}

\* every path a running request holds names one file, which it created, and
\* no two running requests hold the same path
OwnFilesOnly ==
    \A r \in Reqs : \A path \in {tmpLocalFile[r], fastStartVideoLocation[r]} :
        Holds(r, path) =>
            /\ \A f \in files : f.path = path => f.by = r
            /\ Exists(files, path)
            /\ \A q \in Reqs \ {r} : ~Holds(q, path)

\* a step of a request reads and writes only files the request created, and
\* removes only such files, when it returns
OwnStepsOnly ==
    /\ \A r \in Reqs : \A path \in Touched(r) :
          \A f \in files \cup files' : f.path = path => f.by = r
    /\ \A f \in files \ files' : pc[f.by] # pc'[f.by] /\ pc'[f.by] = "done"
    /\ \A f \in files' \ files : pc[f.by] # pc'[f.by]

\* C18: whatever the interleaving, a staged or processed file is read,
\* written and removed only by the request that created it: no two running
\* requests hold the same path, and the removals a request runs when it
\* returns take away none but its own files.
C18_FilesExclusivelyOwned == []OwnFilesOnly /\ [][OwnStepsOnly]_vars

C18_Witness ==
    \E r \in Reqs : \E q \in Reqs \ {r} :
        /\ pc[r] = "done" /\ Has(r, "Open", TRUE) /\ FilesOf(r) = {}
        /\ tmpLocalFile[r] # tmpLocalFile[q]
        /\ pc[q] = "putObject" /\ Has(q, "Open", TRUE)
        /\ FilesOf(q) = {File(tmpLocalFile[q], q), File(fastStartVideoLocation[q], q)}

\* C19: the body is wrapped with http.MaxBytesReader before the first call
\* that reads it, and a request whose body is longer than the ceiling is
\* answered 400 when the form is parsed and stops: it creates no file, runs
\* no tool, calls the object store not at all and does not write the record.
C19_OversizedBodyRejected ==
    \A r \in Reqs : \A i \in Positions(r) :
        /\ calls[r][i].op \in {"ParseMultipartForm", "FormFile", "Read", "Copy"} =>
              \E j \in 1..(i - 1) : calls[r][j].op = "MaxBytesReader"
        /\ (calls[r][i].op = "ParseMultipartForm" /\ calls[r][i].arg = <<"over">>) =>
              /\ ~calls[r][i].ok
              /\ i = Len(calls[r])
              /\ pc[r] = "done"
              /\ responses[r] = <<StatusBadRequest>>
              /\ \A j \in Positions(r) :
                    calls[r][j].op \notin {"CreateTemp", "ffprobe", "ffmpeg", "PutObject",
                                           "DeleteObject", "UpdateVideo"}
              /\ FilesOf(r) = {}

C19_Witness ==
    \E r \in Reqs :
        /\ pc[r] = "done"
        /\ calls[r][1].op = "MaxBytesReader"
        /\ \E i \in Positions(r) :
              calls[r][i].op = "ParseMultipartForm" /\ calls[r][i].arg = <<"over">>
        /\ \E q \in Reqs \ {r} :
              \E i \in Positions(q) :
                 /\ calls[q][i].op = "ParseMultipartForm" /\ calls[q][i].ok
                 /\ calls[q][i].arg = <<"within">>

\* the requests that uploaded an object, and those that ran to the end
Uploaders == {r \in Reqs : Has(r, "PutObject", TRUE)}
Succeeded(r) == pc[r] = "done" /\ Has(r, "UpdateVideo", TRUE)

\* the ingestions so far all succeeded and ran one after the other on a
\* record that had no reference: one found no reference, every other one
\* found the reference that another one wrote, no two the same
Sequential ==
    /\ Uploaders # {}
    /\ \A r \in Uploaders :
          /\ Succeeded(r)
          /\ \/ PriorRef(r) = <<>>
             \/ \E q \in Uploaders \ {r} :
                   Succeeded(q) /\ PriorRef(r) = ArgOf(q, "UpdateVideo")
          /\ \A q \in Uploaders \ {r} : PriorRef(q) # PriorRef(r)

\* C20: after successful ingestions that ran one after the other on a record
\* that had no reference, the keys they uploaded under differ from each
\* other, and the store holds one object: the one of the last ingestion,
\* which is the one the record names.
C20_OneObjectAfterSequentialRuns ==
    Sequential =>
        /\ \A r \in Uploaders : \A q \in Uploaders \ {r} :
              ArgOf(r, "PutObject") # ArgOf(q, "PutObject")
        /\ \E last \in Uploaders :
              /\ store = {ArgOf(last, "PutObject")}
              /\ db[videoID[last]].VideoURL = Ptr(ArgOf(last, "UpdateVideo"))
              /\ RefKey(db[videoID[last]].VideoURL.val) = ArgOf(last, "PutObject")
              /\ \A q \in Uploaders \ {last} : PriorRef(last) = ArgOf(q, "UpdateVideo")

C20_Witness ==
    /\ Sequential
    /\ Cardinality(Uploaders) = NumReqs
    /\ Cardinality(store) = 1
    /\ \E r \in Uploaders : Has(r, "DeleteObject", TRUE)

\* the request read a reference that the separator of the running handler
\* does not split, and has come to the step that retires the old object
Mismatched(r) ==
    /\ PriorRef(r) # <<>>
    /\ ~Contains(PriorRef(r), Separator(variant))
    /\ Has(r, "PutObject", TRUE)
    /\ pc[r] # "deleteOld"

\* C21 as claimed: when the reference on the record is in the encoding the
\* running handler does not split, no delete is issued for the old object
\* and the caller gets no error (requests that the prober had already made
\* answer with an error are left aside).
C21_MismatchFailsSilently ==
    \A r \in Reqs :
        (Mismatched(r) /\ Has(r, "ffprobe", TRUE)) =>
            (~Issued(r, "DeleteObject") /\ ~AnsweredError(r))

\* C21 as amended: no delete is issued and the old object stays, but the
\* caller gets a 500: the request stops after its upload, does not write the
\* record, and leaves the object it uploaded in the store.
C21_MismatchAnswers500 ==
    \A r \in Reqs :
        Mismatched(r) =>
            /\ ~Issued(r, "DeleteObject")
            /\ RefKey(PriorRef(r)) \in store
            /\ pc[r] = "done"
            /\ responses[r][Len(responses[r])] = StatusInternalServerError
            /\ ~Answered200(r)
            /\ ~Issued(r, "UpdateVideo")
            /\ db[videoID[r]].VideoURL = Ptr(PriorRef(r))
            /\ ArgOf(r, "PutObject") \in store

C21_Witness ==
    /\ \E r \in Reqs : Mismatched(r) /\ variant = "pair" /\ responses[r] = <<StatusInternalServerError>>
    /\ \E r \in Reqs : Mismatched(r) /\ Has(r, "SplitN", FALSE) /\ FilesOf(r) = {}

\* C22: the body of every PutObject is the file that ffmpeg wrote from the
\* staged file of the same request, after ffmpeg succeeded, and never the
\* staged file; when ffmpeg fails the request stops without a PutObject and
\* its staged file is removed.
C22_UploadBodyIsRemuxed ==
    \A r \in Reqs :
        /\ \A i \in Positions(r) :
              calls[r][i].op = "PutObject" =>
                  /\ \E j \in 1..(i - 1) :
                        /\ calls[r][j].op = "ffmpeg" /\ calls[r][j].ok
                        /\ calls[r][j].arg = tmpLocalFile[r]
                  /\ calls[r][i].body = ProcessingPath(tmpLocalFile[r])
                  /\ calls[r][i].body # tmpLocalFile[r]
        /\ Has(r, "ffmpeg", FALSE) =>
              /\ pc[r] = "done"
              /\ ~Issued(r, "PutObject")
              /\ ~Exists(FilesOf(r), tmpLocalFile[r])

\* C23: a request writes at most one response, and once it has written an
\* error it runs no further step.
C23_AtMostOneResponse ==
    \A r \in Reqs :
        /\ Len(responses[r]) <= 1
        /\ AnsweredError(r) => Returned(r)

\* the request ran to the end on record id without any error
Ingestion(r, id) ==
    /\ Succeeded(r) /\ videoID[r] = id
    /\ responses[r] = <<StatusOK>>

\* C24: when two ingestions on the same record have both succeeded, however
\* their steps were interleaved, the object the record names is in the store
\* and every object either of them uploaded that is still in the store is
\* the one the record names.
C24_ConcurrentIngestionsConsistent ==
    \A id \in DOMAIN db :
        (\A r \in Reqs : Ingestion(r, id)) =>
            /\ RefKey(db[id].VideoURL.val) \in store
            /\ \A r \in Reqs :
                  ArgOf(r, "PutObject") \in store =>
                      db[id].VideoURL = Ptr(ArgOf(r, "UpdateVideo"))

\* dbVideoToSignedVideo has returned
SignedCase == input.fn = "dbVideoToSignedVideo" /\ output.done

\* C25: in the "bucket,key" handler, a reference that an ingestion wrote to
\* the record splits at the ',' into the bucket and the key of an upload;
\* dbVideoToSignedVideo returns a record without a reference as it is and
\* without presigning, returns an error and no presigned URL for a reference
\* without a ',', and otherwise returns a copy that names the presigned URL
\* of the bucket and the key; the presigned URL is never on the record, and
\* passing a record through dbVideoToSignedVideo leaves the record store as
\* it is.
SignedReadsFaithful ==
    /\ \A id \in DOMAIN db :
          (\E r \in Reqs : Succeeded(r) /\ videoID[r] = id) =>
              /\ ~db[id].VideoURL.isNil
              /\ LET split == DecodeRef(db[id].VideoURL.val, <<",">>)
                 IN  /\ Len(split) = 2
                     /\ split[1] = S3Bucket
                     /\ \E r \in Reqs : split[2] = ArgOf(r, "PutObject")
    /\ SignedCase =>
          LET v == input.video
              res == output.val
          IN  /\ v.VideoURL.isNil => res = Signed(v, "nil", FALSE)
              /\ (~v.VideoURL.isNil /\ ~Contains(v.VideoURL.val, <<",">>)) =>
                    res = Signed(v, "invalid video URL format", FALSE)
              /\ (~v.VideoURL.isNil /\ Contains(v.VideoURL.val, <<",">>)) =>
                    /\ res.presigned
                    /\ \/ res.err # "nil" /\ res.video = v
                       \/ /\ res.err = "nil"
                          /\ res.video.UserID = v.UserID
                          /\ res.video.VideoURL =
                                Ptr(PresignedURL(S3Bucket, RefKey(v.VideoURL.val)))
              /\ \A id \in DOMAIN db :
                    res.presigned => db[id].VideoURL # res.video.VideoURL \/ res.err # "nil"

SignedReadsKeepRecord == (input' # input \/ output' # output) => db' = db

C25_SignedReadsLeaveReference == []SignedReadsFaithful /\ [][SignedReadsKeepRecord]_vars

C25_Witness ==
    /\ SignedCase
    /\ output.val.presigned /\ output.val.err = "nil"
    /\ \E r \in Reqs :
          /\ Succeeded(r)
          /\ input.video.VideoURL = Ptr(ArgOf(r, "UpdateVideo"))
          /\ db[videoID[r]].VideoURL = Ptr(ArgOf(r, "UpdateVideo"))
====
